---- MODULE Spec2Model ----
(***************************************************************************)
(* Conjunction detection engine of DONT-PANIC                              *)
(* (src/src/services/conjunctionDetector.js).                              *)
(*                                                                         *)
(* Units.  JavaScript numbers are modelled by integers:                    *)
(*   distances and positions   metres        (1 km    = 1000)              *)
(*   velocities                0.1 km/s      (1 km/s  = 10)                *)
(*   altitudes                 km                                          *)
(*   time offsets              minutes                                     *)
(* Math.sqrt is the integer square root, so a distance is known to the     *)
(* metre.  NaN and Infinity are two integers outside the range of every    *)
(* other value, and every comparison of JavaScript numbers goes through    *)
(* Lt/Gt, which are false on NaN as in IEEE 754.                           *)
(***************************************************************************)
EXTENDS Integers, Sequences, FiniteSets, TLC

VARIABLES
    pc,             \* "idle" | "scan" | "done": position in detectConjunctions
    satellites,     \* the argument of the running (or last) cycle: names of objects
    trackableSats,  \* satellites.filter(...)
    i, j,           \* loop indices of the pairwise scan (1-based)
    conjunctions,   \* the local array of detectConjunctions
    closestApproach,\* the const closestApproach of the current iteration
    result,         \* the value returned by the last finished cycle
    rcPrev, rcCur,  \* the last two calls of getRiskLevel: [d, v, tier]
    argument,       \* history: the input list as the caller passed it
    cascadePrev, cascade,   \* the last two calls of simulateDebrisCascade
    impact,         \* the last call of identifyAffectedSatellites
    objects,        \* the fields of every tracked object, by name
    activeCycles,   \* invocations of detectConjunctions begun and not returned
    fetchState      \* the call of fetchSatelliteTLEs: position, response, value

vars == <<pc, satellites, trackableSats, i, j, conjunctions, closestApproach,
          result, rcPrev, rcCur, argument, cascadePrev, cascade, impact, objects,
          activeCycles, fetchState>>

----------------------------------------------------------------------------
(* Bounds of the model *)

\* longest input list of a detection cycle
MaxSats == 4

\* longest catalog handed to identifyAffectedSatellites
MaxCatalog == 3

\* longest satellite list in a response of the backend
MaxFetched == 3

----------------------------------------------------------------------------
(* Program constants *)

EARTH_RADIUS_KM == 6371
GM == 398600
MetresPerKm == 10 * 100
HIGH_RISK_THRESHOLD_KM == 1 * MetresPerKm
PREDICTION_HORIZON_MINUTES == 30
TIME_STEPS == 30
ALTITUDE_GATE_KM == 100
TOP_N == 5
CRITICAL_BELOW == MetresPerKm \div 10
HIGH_BELOW == MetresPerKm \div 2
ELEVATED_BELOW == 1 * MetresPerKm

\* JavaScript's Infinity and NaN
Infinity == 99999999
NaN == -99999999

IsNaN(a) == a = NaN
\* a < b and a > b on JavaScript numbers
Lt(a, b) == ~IsNaN(a) /\ ~IsNaN(b) /\ a < b
Gt(a, b) == Lt(b, a)

Abs(a) == IF a < 0 THEN -a ELSE a
Min(a, b) == IF a < b THEN a ELSE b

RECURSIVE SqrtIter(_, _, _)
\* the r in lo..hi-1 with r*r <= n < (r+1)*(r+1)
SqrtIter(n, lo, hi) ==
    IF hi - lo <= 1 THEN lo
    ELSE LET mid == (lo + hi) \div 2
         IN  IF mid * mid <= n THEN SqrtIter(n, mid, hi) ELSE SqrtIter(n, lo, mid)

\* Math.sqrt on a non-negative number
Sqrt(n) == SqrtIter(n, 0, Min(n + 1, 46340))

----------------------------------------------------------------------------
(* The tracked objects a cycle can be given.                               *)
(*                                                                         *)
(* An object is referred to by its name, as the JavaScript code refers to  *)
(* it by reference.  Its fields are those detectConjunctions reads:        *)
(* satrec (truthy or not), altitude (a number or undefined) and whether    *)
(* latitude and longitude are both defined.                                *)

Names == {"ALPHA", "BRAVO", "CHARLIE", "DELTA", "ECHO", "FOXTROT",
          "GOLF", "HOTEL", "INDIA", "JULIET", "KILO"}

\* Objects that findClosestApproach and simulateDebrisCascade are applied
\* to on their own; they are kept out of the lists of a cycle, which are
\* long enough without them.
MoreNames == {"LIMA", "MIKE", "NOVEMBER"}

Objects == Names \cup MoreNames

\* sat.satrec is truthy: the object was built from a TLE by parseTLEData
HasSatrec(sat) ==
    sat \in {"ALPHA", "BRAVO", "CHARLIE", "DELTA", "ECHO", "FOXTROT", "KILO",
             "LIMA"}

\* sat.altitude is a number (otherwise it is undefined)
HasAltitude(sat) == sat \notin {"JULIET", "KILO"}

\* sat.altitude, in km, where it is a number
Altitude(sat) ==
    CASE sat \in {"ALPHA", "ECHO", "GOLF", "HOTEL", "INDIA"} -> 550
      [] sat \in {"BRAVO", "FOXTROT"} -> 600
      [] sat \in {"CHARLIE", "LIMA"} -> 650
      [] sat = "DELTA" -> 700
      [] sat = "MIKE" -> 550
      [] sat = "NOVEMBER" -> 370
      [] OTHER -> 0

\* sat.latitude !== undefined && sat.longitude !== undefined: the objects
\* parseTLEData builds carry both, next to their handle
HasLatLon(sat) ==
    sat \in {"ALPHA", "BRAVO", "CHARLIE", "DELTA", "ECHO", "FOXTROT",
             "GOLF", "HOTEL", "LIMA", "MIKE", "NOVEMBER"}

Vec(a, b, c) == [ok |-> TRUE, x |-> a, y |-> b, z |-> c]
\* a component the library did not produce (false / undefined)
NoVec == [ok |-> FALSE, x |-> 0, y |-> 0, z |-> 0]
NaNVec == [ok |-> TRUE, x |-> NaN, y |-> NaN, z |-> NaN]

\* What satellite.propagate(sat.satrec, sat.timestamp + minutes) yields for
\* the objects that have a propagator handle.  The library is external: each
\* object stands for one behaviour of it (no position at some samples, a
\* position of NaNs, a position without a velocity, a position that stays
\* where it is from some sample on).
satellite_propagate(sat, minutes) ==
    CASE sat = "ALPHA" ->
            [position |-> Vec(0, 0, 0), velocity |-> Vec(40, 0, 0)]
      [] sat = "BRAVO" ->
            [position |-> Vec(1200 - 100 * minutes, 30, 40),
             velocity |-> Vec(-40, 0, 0)]
      [] sat = "CHARLIE" ->
            [position |-> Vec(0, 300, 0),
             velocity |-> IF minutes < 10 THEN Vec(0, 30, 0) ELSE NoVec]
      [] sat = "DELTA" ->
            [position |-> IF minutes < 5 \/ minutes = 12
                          THEN NoVec ELSE Vec(0, 0, 100),
             velocity |-> NoVec]
      [] sat = "ECHO" ->
            [position |-> IF minutes < 15 THEN NoVec ELSE NaNVec,
             velocity |-> NoVec]
      [] sat = "FOXTROT" ->
            [position |-> IF minutes < 20 THEN NaNVec ELSE Vec(600, 0, 0),
             velocity |-> Vec(0, 0, 0)]
      [] sat = "KILO" ->
            [position |-> Vec(3000 - 100 * minutes, 0, 0),
             velocity |-> Vec(-40, 0, 0)]
      [] sat = "LIMA" ->
            [position |-> IF minutes < 15
                          THEN Vec(1500 - 100 * minutes, 300, 0)
                          ELSE Vec(0, 300, 0),
             velocity |-> IF minutes < 15 THEN Vec(-40, 0, 0) ELSE Vec(0, 0, 0)]
      [] OTHER -> [position |-> NoVec, velocity |-> NoVec]

\* The position propagateSimple computes from altitude, latitude and the
\* advanced longitude.  The trigonometry is not modelled: each object without
\* a handle has a position in the same local frame as the others.
SimplePosition(sat, minutes) ==
    CASE sat = "GOLF" -> Vec(0, 0, 900)
      [] sat = "HOTEL" -> Vec(0, 0, 1900)
      [] sat = "MIKE" -> Vec(0, 0, 1400)
      [] sat = "NOVEMBER" -> Vec(0, 0, 1000)
      [] OTHER -> Vec(0, 0, 0)

\* the unresolved state (null)
Unresolved == [resolved |-> FALSE, position |-> NoVec, velocity |-> NoVec]

\* propagateSatellite of satelliteService
propagateSatellite(sat, minutesAhead) ==
    IF ~HasSatrec(sat) THEN Unresolved
    ELSE LET positionAndVelocity == satellite_propagate(sat, minutesAhead)
         IN  IF positionAndVelocity.position.ok
             THEN [resolved |-> TRUE,
                   position |-> positionAndVelocity.position,
                   velocity |-> positionAndVelocity.velocity]
             ELSE Unresolved

\* Math.sqrt(GM / orbitalRadius), in 0.1 km/s
CircularSpeed(altitude) == Sqrt((GM * 100) \div (EARTH_RADIUS_KM + altitude))

\* the velocity turned with the position of the object
propagateSimpleTangent(sat, minutesAhead) ==
    [resolved |-> TRUE,
     position |-> SimplePosition(sat, minutesAhead),
     velocity |-> Vec(SimplePosition(sat, minutesAhead).z \div 100,
                      CircularSpeed(Altitude(sat)), 0)]

propagateSimple(sat, minutesAhead) ==
    [resolved |-> TRUE,
     position |-> SimplePosition(sat, minutesAhead),
     velocity |-> Vec(0, CircularSpeed(Altitude(sat)), 0)]

\* sat.altitude is truthy
AltitudeTruthy(sat) == HasAltitude(sat) /\ Altitude(sat) # 0

\* the resolver falling back on the circular-orbit model when the
\* propagator yields no position
propagateSatellitePositionWithFallback(sat, minutesAhead) ==
    IF HasSatrec(sat) /\ propagateSatellite(sat, minutesAhead).resolved
    THEN propagateSatellite(sat, minutesAhead)
    ELSE IF AltitudeTruthy(sat) /\ HasLatLon(sat) THEN propagateSimple(sat, minutesAhead)
    ELSE Unresolved

propagateSatellitePosition(sat, minutesAhead) ==
    IF HasSatrec(sat) THEN propagateSatellite(sat, minutesAhead)
    ELSE IF AltitudeTruthy(sat) /\ HasLatLon(sat) THEN propagateSimple(sat, minutesAhead)
    ELSE Unresolved

\* Separations up to NEAR_M metres are squared to the metre; beyond it the
\* squares would leave the range of the model's integers, and the components
\* are taken on a grid of GRID_M metres.
NEAR_M == 26000
GRID_M == 100

\* the distance with its last term left unsquared
calculateDistance3DUnsquared(pos1, pos2) ==
    IF IsNaN(pos1.x) \/ IsNaN(pos2.x) THEN NaN
    ELSE LET dx == pos1.x - pos2.x
             dy == pos1.y - pos2.y
             dz == pos1.z - pos2.z
         IN  IF Abs(dx) > NEAR_M \/ Abs(dy) > NEAR_M \/ Abs(dz) > NEAR_M
             THEN LET gx == Abs(dx) \div GRID_M
                      gy == Abs(dy) \div GRID_M
                      gz == Abs(dz) \div GRID_M
                  IN  GRID_M * Sqrt(gx * gx + gy * gy + gz * gz)
             ELSE IF dx * dx + dy * dy + dz < 0 THEN NaN
             ELSE Sqrt(dx * dx + dy * dy + dz)

calculateDistance3D(pos1, pos2) ==
    IF IsNaN(pos1.x) \/ IsNaN(pos2.x) THEN NaN
    ELSE LET dx == pos1.x - pos2.x
             dy == pos1.y - pos2.y
             dz == pos1.z - pos2.z
         IN  IF Abs(dx) > NEAR_M \/ Abs(dy) > NEAR_M \/ Abs(dz) > NEAR_M
             THEN LET gx == Abs(dx) \div GRID_M
                      gy == Abs(dy) \div GRID_M
                      gz == Abs(dz) \div GRID_M
                  IN  GRID_M * Sqrt(gx * gx + gy * gy + gz * gz)
             ELSE Sqrt(dx * dx + dy * dy + dz * dz)

calculateRelativeVelocity(vel1, vel2) ==
    LET dvx == vel1.x - vel2.x
        dvy == vel1.y - vel2.y
        dvz == vel1.z - vel2.z
    IN  Sqrt(dvx * dvx + dvy * dvy + dvz * dvz)

\* the classifier with <= for < at its first threshold
getRiskLevelInclusive(missDistance, relativeVelocity) ==
    IF ~Gt(missDistance, CRITICAL_BELOW) /\ ~IsNaN(missDistance) THEN "CRITICAL"
    ELSE IF Lt(missDistance, HIGH_BELOW) THEN "HIGH"
    ELSE IF Lt(missDistance, ELEVATED_BELOW) THEN "ELEVATED"
    ELSE "MODERATE"

getRiskLevel(missDistance, relativeVelocity) ==
    IF Lt(missDistance, CRITICAL_BELOW) THEN "CRITICAL"
    ELSE IF Lt(missDistance, HIGH_BELOW) THEN "HIGH"
    ELSE IF Lt(missDistance, ELEVATED_BELOW) THEN "ELEVATED"
    ELSE "MODERATE"

----------------------------------------------------------------------------
(* findClosestApproach *)

\* the locals before the loop: minDistance, closestTime (null), closestRelVel,
\* closestPositions (null).  relVelFrom is a history field: the samples (none
\* or one) at which the current closestRelVel was computed.
SearchStart ==
    [minDistance |-> Infinity, hasTime |-> FALSE, closestTime |-> 0,
     closestRelVel |-> 0, relVelFrom |-> {}, hasPositions |-> FALSE,
     closestPositions |-> [sat1 |-> NoVec, sat2 |-> NoVec]]

\* the offset of the sample before: the steps counted from 1
MinutesAheadOffByOne(step) == ((step - 1) * PREDICTION_HORIZON_MINUTES) \div TIME_STEPS

\* (step / TIME_STEPS) * PREDICTION_HORIZON_MINUTES, which is exact in
\* floating point for every step of the loop
MinutesAhead(step) == (step * PREDICTION_HORIZON_MINUTES) \div TIME_STEPS

\* the loop body without the comparison against the minimum so far: every
\* sample with a distance overwrites the locals
SearchStepLast(sat1, sat2, acc, step) ==
    LET minutesAhead == MinutesAhead(step)
        pos1 == propagateSatellitePosition(sat1, minutesAhead)
        pos2 == propagateSatellitePosition(sat2, minutesAhead)
    IN  IF pos1.resolved /\ pos2.resolved
        THEN LET distance == calculateDistance3D(pos1.position, pos2.position)
             IN  IF Lt(distance, Infinity)
                 THEN [minDistance |-> distance,
                       hasTime |-> TRUE,
                       closestTime |-> minutesAhead,
                       closestRelVel |->
                           IF pos1.velocity.ok /\ pos2.velocity.ok
                           THEN calculateRelativeVelocity(pos1.velocity, pos2.velocity)
                           ELSE acc.closestRelVel,
                       relVelFrom |->
                           IF pos1.velocity.ok /\ pos2.velocity.ok
                           THEN {minutesAhead}
                           ELSE acc.relVelFrom,
                       hasPositions |-> TRUE,
                       closestPositions |-> [sat1 |-> pos1.position,
                                             sat2 |-> pos2.position]]
                 ELSE acc
        ELSE acc

\* one iteration of the loop over step
SearchStep(sat1, sat2, acc, step) ==
    LET minutesAhead == MinutesAhead(step)
        pos1 == propagateSatellitePosition(sat1, minutesAhead)
        pos2 == propagateSatellitePosition(sat2, minutesAhead)
    IN  IF pos1.resolved /\ pos2.resolved
        THEN LET distance == calculateDistance3D(pos1.position, pos2.position)
             IN  IF Lt(distance, acc.minDistance)
                 THEN [minDistance |-> distance,
                       hasTime |-> TRUE,
                       closestTime |-> minutesAhead,
                       closestRelVel |->
                           IF pos1.velocity.ok /\ pos2.velocity.ok
                           THEN calculateRelativeVelocity(pos1.velocity, pos2.velocity)
                           ELSE acc.closestRelVel,
                       relVelFrom |->
                           IF pos1.velocity.ok /\ pos2.velocity.ok
                           THEN {minutesAhead}
                           ELSE acc.relVelFrom,
                       hasPositions |-> TRUE,
                       closestPositions |-> [sat1 |-> pos1.position,
                                             sat2 |-> pos2.position]]
                 ELSE acc
        ELSE acc

RECURSIVE SearchLoopBreak(_, _, _, _)
\* the loop leaving at the first sample at which an object does not resolve
SearchLoopBreak(sat1, sat2, acc, step) ==
    IF step > TIME_STEPS THEN acc
    ELSE IF ~(/\ propagateSatellitePosition(sat1, MinutesAhead(step)).resolved
              /\ propagateSatellitePosition(sat2, MinutesAhead(step)).resolved)
    THEN acc
    ELSE CHOOSE end \in {SearchLoopBreak(sat1, sat2, next, step + 1) :
                             next \in {SearchStep(sat1, sat2, acc, step)}} : TRUE

RECURSIVE SearchLoop(_, _, _, _)
\* the loop from `step` to TIME_STEPS (the singleton set binds the locals
\* after an iteration as a value before the next iteration reads them)
SearchLoop(sat1, sat2, acc, step) ==
    IF step > TIME_STEPS THEN acc
    ELSE CHOOSE end \in {SearchLoop(sat1, sat2, next, step + 1) :
                             next \in {SearchStep(sat1, sat2, acc, step)}} : TRUE

\* the value for `return null`
NoApproach ==
    [found |-> FALSE, missDistance |-> Infinity, timeToClosestApproach |-> 0,
     relativeVelocity |-> 0, relVelFrom |-> {},
     positions |-> [sat1 |-> NoVec, sat2 |-> NoVec]]

\* findClosestApproach without its `return null`
findClosestApproachNoNull(sat1, sat2) ==
    LET acc == SearchLoop(sat1, sat2, SearchStart, 0)
    IN  [found |-> TRUE,
         missDistance |-> acc.minDistance,
         timeToClosestApproach |-> acc.closestTime,
         relativeVelocity |-> acc.closestRelVel,
         relVelFrom |-> acc.relVelFrom,
         positions |-> acc.closestPositions]

findClosestApproach(sat1, sat2) ==
    LET acc == SearchLoop(sat1, sat2, SearchStart, 0)
    IN  IF acc.minDistance = Infinity THEN NoApproach
        ELSE [found |-> TRUE,
              missDistance |-> acc.minDistance,
              timeToClosestApproach |-> acc.closestTime,
              relativeVelocity |-> acc.closestRelVel,
              relVelFrom |-> acc.relVelFrom,
              positions |-> acc.closestPositions]

\* findClosestApproach tabulated over the objects (it reads nothing but its
\* two arguments), so that a cycle looks a pair up instead of searching again
ClosestApproachOf == [sat1 \in Objects, sat2 \in Objects |-> findClosestApproach(sat1, sat2)]

----------------------------------------------------------------------------
(* detectConjunctions *)

\* satellites.filter(sat => sat.satrec || sat.altitude)
FilterTrackable(sats) == SelectSeq(sats, LAMBDA sat : HasSatrec(sat) \/ AltitudeTruthy(sat))

\* the gate with its comparison turned round
AltitudeGateInverted(sat1, sat2) ==
    LET diff == IF HasAltitude(sat1) /\ HasAltitude(sat2)
                THEN Abs(Altitude(sat1) - Altitude(sat2))
                ELSE NaN
    IN  Lt(diff, ALTITUDE_GATE_KM)

\* the gate with >= for >
AltitudeGateRejectsInclusive(sat1, sat2) ==
    LET diff == IF HasAltitude(sat1) /\ HasAltitude(sat2)
                THEN Abs(Altitude(sat1) - Altitude(sat2))
                ELSE NaN
    IN  ~Lt(diff, ALTITUDE_GATE_KM) /\ ~IsNaN(diff)

\* Math.abs(sat1.altitude - sat2.altitude) > 100; the difference is NaN, and
\* the comparison false, when an altitude is undefined
AltitudeGateRejects(sat1, sat2) ==
    LET diff == IF HasAltitude(sat1) /\ HasAltitude(sat2)
                THEN Abs(Altitude(sat1) - Altitude(sat2))
                ELSE NaN
    IN  Gt(diff, ALTITUDE_GATE_KM)

\* the object pushed for a qualifying pair (id and timestamp, which only
\* carry the wall clock, are left out)
MakeConjunction(sat1, sat2, approach) ==
    [sat1 |-> sat1,
     sat2 |-> sat2,
     missDistance |-> approach.missDistance,
     timeToClosestApproach |-> approach.timeToClosestApproach,
     relativeVelocity |-> approach.relativeVelocity,
     positions |-> approach.positions,
     riskLevel |-> getRiskLevel(approach.missDistance,
                                approach.relativeVelocity)]

\* the threshold test with <= for <
QualifiesInclusive(approach) ==
    approach.found /\ ~Gt(approach.missDistance, HIGH_RISK_THRESHOLD_KM)

\* closestApproach && closestApproach.missDistance < HIGH_RISK_THRESHOLD_KM
Qualifies(approach) ==
    approach.found /\ Lt(approach.missDistance, HIGH_RISK_THRESHOLD_KM)

\* the comparator with its operands exchanged
CompareByTimeReversed(a, b) == b.timeToClosestApproach - a.timeToClosestApproach

\* the comparator of the sort: a.timeToClosestApproach - b.timeToClosestApproach
CompareByTime(a, b) == a.timeToClosestApproach - b.timeToClosestApproach

RECURSIVE InsertSortedUnstable(_, _)
\* an insertion that puts `c` before the elements it compares equal to
InsertSortedUnstable(sorted, c) ==
    IF sorted = <<>> THEN <<c>>
    ELSE LET last == sorted[Len(sorted)]
         IN  IF CompareByTime(last, c) >= 0
             THEN Append(InsertSortedUnstable(SubSeq(sorted, 1, Len(sorted) - 1), c), last)
             ELSE Append(sorted, c)

RECURSIVE InsertSorted(_, _)
\* `c` placed behind every element of `sorted` that does not compare greater
InsertSorted(sorted, c) ==
    IF sorted = <<>> THEN <<c>>
    ELSE LET last == sorted[Len(sorted)]
         IN  IF CompareByTime(last, c) > 0
             THEN Append(InsertSorted(SubSeq(sorted, 1, Len(sorted) - 1), c), last)
             ELSE Append(sorted, c)

RECURSIVE SortPrefix(_, _)
\* the first n elements of seq, sorted
SortPrefix(seq, n) ==
    IF n = 0 THEN <<>> ELSE InsertSorted(SortPrefix(seq, n - 1), seq[n])

\* Array.prototype.sort with CompareByTime: a stable sort (ECMAScript 2019)
SortConjunctions(seq) == SortPrefix(seq, Len(seq))

\* the slice taken from the second element
TopSliceFromSecond(seq) == SubSeq(seq, 2, Min(TOP_N, Len(seq)))

\* conjunctions.slice(0, 5)
TopSlice(seq) == SubSeq(seq, 1, Min(TOP_N, Len(seq)))

----------------------------------------------------------------------------
(* simulateDebrisCascade                                                   *)
(*                                                                         *)
(* Math.random() yields draw / RANDOM_SCALE for a draw in                  *)
(* 0..RANDOM_SCALE - 1.  A velocity perturbation is kept in units of       *)
(* 1 / (RANDOM_SCALE * 10 * 10) km/s, a fragment size in units of          *)
(* 1 / (RANDOM_SCALE * 10), so that both products are integers.            *)

RANDOM_SCALE == 1000
FRAGMENT_BASE == 50
\* relativeVelocity is kept in tenths of a km/s
TenthsPerKmS == 10

\* What the calls of Math.random() of one invocation return, in the order
\* of the calls.  The generator is the environment's: an invocation gets
\* one of these streams, whatever its arguments.
RandomSources == {"low", "high", "mixed"}

\* the n-th draw of a stream
Draw(random, n) ==
    CASE random = "low" -> 0
      [] random = "high" -> RANDOM_SCALE - 1
      [] OTHER -> (n * 37 + 11) % RANDOM_SCALE

\* the count without its base of 50
FragmentCountNoBase(relativeVelocity) ==
    (relativeVelocity * 10) \div TenthsPerKmS

\* Math.floor(50 + relativeVelocity * 10)
FragmentCount(relativeVelocity) ==
    (FRAGMENT_BASE * TenthsPerKmS + relativeVelocity * 10) \div TenthsPerKmS

\* the perturbation without the - 0.5 that centres it
PerturbationUncentred(draw, relativeVelocity) == draw * relativeVelocity * 3

\* (Math.random() - 0.5) * relativeVelocity * 0.3
Perturbation(draw, relativeVelocity) ==
    (draw - RANDOM_SCALE \div 2) * relativeVelocity * 3

\* Math.random() * 0.5
FragmentSize(draw) == draw * 5

\* the fragment placed at the position of the second object
MakeFragmentAtSecond(conjunction, random, n) ==
    [position |-> conjunction.positions.sat2,
     velocity |->
         [x |-> Perturbation(Draw(random, 4 * n - 3), conjunction.relativeVelocity),
          y |-> Perturbation(Draw(random, 4 * n - 2), conjunction.relativeVelocity),
          z |-> Perturbation(Draw(random, 4 * n - 1), conjunction.relativeVelocity)],
     size |-> FragmentSize(Draw(random, 4 * n)),
     satellite1Name |-> conjunction.sat1,
     satellite2Name |-> conjunction.sat2]

\* the fragments placed a kilometre from one another
MakeFragmentScattered(conjunction, random, n) ==
    [position |-> [conjunction.positions.sat1 EXCEPT !.x = @ + 1000 * n],
     velocity |->
         [x |-> Perturbation(Draw(random, 4 * n - 3), conjunction.relativeVelocity),
          y |-> Perturbation(Draw(random, 4 * n - 2), conjunction.relativeVelocity),
          z |-> Perturbation(Draw(random, 4 * n - 1), conjunction.relativeVelocity)],
     size |-> FragmentSize(Draw(random, 4 * n)),
     satellite1Name |-> conjunction.sat1,
     satellite2Name |-> conjunction.sat2]

\* the n-th fragment pushed (createdAt, which carries the wall clock, is left
\* out): four draws, in the order x, y, z, size
MakeFragment(conjunction, random, n) ==
    [position |-> conjunction.positions.sat1,
     velocity |->
         [x |-> Perturbation(Draw(random, 4 * n - 3), conjunction.relativeVelocity),
          y |-> Perturbation(Draw(random, 4 * n - 2), conjunction.relativeVelocity),
          z |-> Perturbation(Draw(random, 4 * n - 1), conjunction.relativeVelocity)],
     size |-> FragmentSize(Draw(random, 4 * n)),
     satellite1Name |-> conjunction.sat1,
     satellite2Name |-> conjunction.sat2]

\* simulateDebrisCascade(conjunction) when the generator yields `random`
simulateDebrisCascade(conjunction, random) ==
    [n \in 1..FragmentCount(conjunction.relativeVelocity) |->
        MakeFragment(conjunction, random, n)]

\* The conjunctions the simulation is invoked on: those detectConjunctions
\* collects for these pairs, and two of them with their relativeVelocity
\* set by the caller, to 10 km/s and to 0.1 km/s.
CascadePairs ==
    {<<"ALPHA", "BRAVO">>, <<"BRAVO", "ALPHA">>, <<"BRAVO", "DELTA">>,
     <<"ALPHA", "GOLF">>, <<"CHARLIE", "KILO">>, <<"CHARLIE", "DELTA">>,
     <<"GOLF", "MIKE">>, <<"MIKE", "HOTEL">>, <<"NOVEMBER", "GOLF">>}

DetectedConjunction(sat1, sat2) ==
    MakeConjunction(sat1, sat2, ClosestApproachOf[sat1, sat2])

\* the relativeVelocity of a conjunction left as detectConjunctions set it
AsDetected == -1

\* the conjunction of a pair as a caller passes it on
PassedConjunction(sat1, sat2, relativeVelocity) ==
    [DetectedConjunction(sat1, sat2) EXCEPT
        !.relativeVelocity = IF relativeVelocity = AsDetected THEN @ ELSE relativeVelocity]

CascadeConjunctions ==
    {PassedConjunction(k[1], k[2], k[3]) :
        k \in {<<p[1], p[2], AsDetected>> : p \in CascadePairs}
              \cup {<<"ALPHA", "BRAVO", 100>>, <<"CHARLIE", "DELTA", 1>>}}

\* the values a caller passes as a second argument, which the function
\* does not declare
Seeds == {1, 2}

\* simulateDebrisCascade tabulated over its invocations
DebrisOf ==
    [conjunction \in CascadeConjunctions, random \in RandomSources |->
        simulateDebrisCascade(conjunction, random)]

NoCascade ==
    [called |-> FALSE, conjunction |-> MakeConjunction("", "", NoApproach),
     seed |-> 0, debris |-> <<>>]

----------------------------------------------------------------------------
(* identifyAffectedSatellites *)

\* the literal 100 of the proximity test, in metres
IMPACT_RADIUS_KM == 100 * MetresPerKm

\* sat.position: the last position the catalog recorded for the object.
\* parseTLEData records the position at the object's timestamp; an object
\* built without a TLE has no such field.
Position(sat) ==
    CASE sat = "ALPHA" -> Vec(0, 0, 0)
      [] sat = "BRAVO" -> Vec(1200, 30, 40)
      [] sat = "CHARLIE" -> Vec(0, 300, 0)
      [] sat = "DELTA" -> Vec(0, 0, 100000)
      [] sat = "ECHO" -> Vec(0, 99999, 0)
      [] sat = "FOXTROT" -> NaNVec
      [] sat = "GOLF" -> Vec(200000, 0, 0)
      [] sat = "KILO" -> Vec(3000, 0, 0)
      [] OTHER -> NoVec

\* the proximity test with <= for <
InDebrisZoneInclusive(sat, debris) ==
    \E n \in DOMAIN debris :
        IF ~Position(sat).ok \/ ~debris[n].position.ok THEN FALSE
        ELSE LET distance == calculateDistance3D(Position(sat), debris[n].position)
             IN  ~IsNaN(distance) /\ ~Gt(distance, IMPACT_RADIUS_KM)

\* the proximity test without its guard: an absent position read as zeros
InDebrisZoneUnguarded(sat, debris) ==
    \E n \in DOMAIN debris :
        LET distance == calculateDistance3D(Position(sat), debris[n].position)
        IN  Lt(distance, IMPACT_RADIUS_KM)

\* debris.some(frag => ...)
InDebrisZone(sat, debris) ==
    \E n \in DOMAIN debris :
        IF ~Position(sat).ok \/ ~debris[n].position.ok THEN FALSE
        ELSE LET distance == calculateDistance3D(Position(sat), debris[n].position)
             IN  Lt(distance, IMPACT_RADIUS_KM)

\* the record pushed for an object in the debris zone
ImpactRecord(sat) ==
    [satellite |-> sat, riskLevel |-> "ELEVATED", reason |-> "In debris field path"]

\* the catalogs the function can be given: at most MaxCatalog distinct
\* objects, in any order
CatalogLists ==
    {s \in UNION {[1..n -> Names] : n \in 0..MaxCatalog} :
        \A a, b \in DOMAIN s : a # b => s[a] # s[b]}

\* a fragment without a position, and one 200 km from the collision points
PositionlessFragment(fragment) == [fragment EXCEPT !.position = NoVec]
FarFragment(fragment) == [fragment EXCEPT !.position = Vec(200000, 0, 0)]

\* the lists a caller puts together from a fragment
CallerLists(fragment) ==
    {<<PositionlessFragment(fragment)>>,
     <<PositionlessFragment(fragment), FarFragment(fragment)>>,
     <<FarFragment(fragment), fragment>>}

\* The simulated lists a caller passes: the pair of the conjunction, its
\* relativeVelocity (as detected, or set by the caller), the random source
\* and the number of fragments passed on (0 for all of them).  Two of the
\* lists are of one collision point, with 50 and 51 fragments.
SimulatedInputs ==
    {[sat1 |-> "BRAVO", sat2 |-> "DELTA", relativeVelocity |-> AsDetected,
      random |-> "mixed", first |-> 0],
     [sat1 |-> "CHARLIE", sat2 |-> "DELTA", relativeVelocity |-> AsDetected,
      random |-> "low", first |-> 0],
     [sat1 |-> "CHARLIE", sat2 |-> "DELTA", relativeVelocity |-> 1,
      random |-> "high", first |-> 0],
     [sat1 |-> "ALPHA", sat2 |-> "BRAVO", relativeVelocity |-> AsDetected,
      random |-> "mixed", first |-> 2],
     [sat1 |-> "CHARLIE", sat2 |-> "KILO", relativeVelocity |-> AsDetected,
      random |-> "high", first |-> 3]}

\* debris.slice(0, first), or the whole list
PassedOn(debris, first) ==
    IF first = 0 THEN debris ELSE SubSeq(debris, 1, first)

\* the fragment lists the function can be given: the simulated ones, the
\* empty one and lists put together by the caller
DebrisInputs ==
    {PassedOn(DebrisOf[PassedConjunction(input.sat1, input.sat2, input.relativeVelocity),
                       input.random],
              input.first) : input \in SimulatedInputs}
    \cup {<<>>}
    \cup CallerLists(MakeFragment(PassedConjunction("ALPHA", "BRAVO", AsDetected), "low", 1))

\* inDebrisZone of every object and fragment list, computed once
InDebrisZoneOf ==
    [sat \in Names, debris \in DebrisInputs |-> InDebrisZone(sat, debris)]

\* the function without its test of inDebrisZone: a record for every object
identifyAffectedSatellitesAll(debris, allSatellites) ==
    [n \in DOMAIN allSatellites |-> ImpactRecord(allSatellites[n])]

identifyAffectedSatellites(debris, allSatellites) ==
    LET flagged == SelectSeq(allSatellites, LAMBDA sat : InDebrisZoneOf[sat, debris])
    IN  [n \in DOMAIN flagged |-> ImpactRecord(flagged[n])]

NotAssessed ==
    [called |-> FALSE, debris |-> <<>>, allSatellites |-> <<>>, affected |-> <<>>]

\* The fields of the tracked objects that the functions read, as the
\* operators above give them.  No statement of detectConjunctions,
\* findClosestApproach, the propagate functions, simulateDebrisCascade or
\* identifyAffectedSatellites assigns to a property of a tracked object, so
\* no action changes `objects`, and the operators stand for its fields.
Catalog ==
    [sat \in Names |->
        [satrec |-> HasSatrec(sat),
         hasAltitude |-> HasAltitude(sat),
         altitude |-> Altitude(sat),
         hasLatLon |-> HasLatLon(sat),
         position |-> Position(sat)]]

----------------------------------------------------------------------------
(* fetchSatelliteTLEs (satellite tracking service)                         *)
(*                                                                         *)
(* The backend is the environment: the request is rejected or resolves     *)
(* with a status, and the body of an OK response fails to parse or parses  *)
(* to a value.                                                             *)

\* the groups getDemoSatellites pushes, in order, with their sizes
DemoGroups ==
    <<[family |-> "ISS", type |-> "ISS", count |-> 1],
      [family |-> "Starlink", type |-> "starlink", count |-> 200],
      [family |-> "GPS", type |-> "gps", count |-> 32],
      [family |-> "OneWeb", type |-> "oneweb", count |-> 50],
      [family |-> "Polar", type |-> "polar", count |-> 40],
      [family |-> "GEO", type |-> "geo", count |-> 15],
      [family |-> "Weather", type |-> "weather", count |-> 20],
      [family |-> "Comms", type |-> "communications", count |-> 30]>>

\* the objects of one group (the orbital fields, some of them drawn at
\* random, are left out)
DemoGroup(g) ==
    [n \in 1..g.count |->
        [name |-> <<g.family, n>>, type |-> g.type, isDemoMode |-> TRUE]]

RECURSIVE DemoUpTo(_)
\* demoSats after the first k groups
DemoUpTo(k) ==
    IF k = 0 THEN <<>> ELSE DemoUpTo(k - 1) \o DemoGroup(DemoGroups[k])

\* what getDemoSatellites returns
getDemoSatellites == DemoUpTo(Len(DemoGroups))

\* response.ok
ResponseOk(status) == status >= 200 /\ status <= 299

\* the statuses the backend answers with
Statuses == {200, 404, 500}

\* the entries of data.satellites: twoline2satrec and the arithmetic on
\* its result complete for an entry that parses and throw for the others
Entries ==
    {[name |-> "SAT-A", id |-> 101, parses |-> TRUE],
     [name |-> "SAT-B", id |-> 102, parses |-> TRUE],
     [name |-> "SAT-X", id |-> 103, parses |-> FALSE]}

\* the lists data.satellites can be
SatelliteLists == UNION {[1..n -> Entries] : n \in 0..MaxFetched}

\* the values response.json() resolves to: null, or an object with a
\* success flag and, or not, a satellites array
Bodies ==
    {[isObject |-> FALSE, success |-> FALSE, hasSatellites |-> FALSE, satellites |-> <<>>]}
    \cup {[isObject |-> TRUE, success |-> ok, hasSatellites |-> FALSE, satellites |-> <<>>] :
              ok \in BOOLEAN}
    \cup {[isObject |-> TRUE, success |-> ok, hasSatellites |-> TRUE, satellites |-> list] :
              ok \in BOOLEAN, list \in SatelliteLists}

\* the test without its length
BackendDeliversAnyLength(data) ==
    data.isObject /\ data.success /\ data.hasSatellites

\* data.success && data.satellites && data.satellites.length > 0
BackendDelivers(data) ==
    data.isObject /\ data.success /\ data.hasSatellites /\ Len(data.satellites) > 0

\* the object the map callback returns for the entry at `index` (0-based);
\* the longitude (index * 3.6) % 360 - 180 is kept in tenths of a degree
ConvertEntry(sat, index) ==
    [name |-> sat.name, id |-> sat.id, isDemoMode |-> TRUE,
     longitude |-> ((index * 36) % 3600) - 1800]

\* data.satellites.map(...).filter(sat => sat !== null): the entries that
\* parse, converted, each with the index it had in the response
ConvertSatellites(list) ==
    LET kept == SelectSeq([n \in DOMAIN list |-> [sat |-> list[n], index |-> n - 1]],
                          LAMBDA e : e.sat.parses)
    IN  [n \in DOMAIN kept |-> ConvertEntry(kept[n].sat, kept[n].index)]

\* the query strings built from `limits`
QueryStrings == {"", "?starlink=5"}

NoBody == [isObject |-> FALSE, success |-> FALSE, hasSatellites |-> FALSE, satellites |-> <<>>]

\* no call of fetchSatelliteTLEs is in progress
NoFetch ==
    [pc |-> "idle", query |-> "", failure |-> "none", status |-> 0, data |-> NoBody,
     outcome |-> "none", value |-> <<>>]

----------------------------------------------------------------------------
(* The detection cycle as a state machine *)

\* the lists a cycle can be given: at most MaxSats distinct objects, in any order
InputLists ==
    {s \in UNION {[1..n -> Names] : n \in 0..MaxSats} :
        \A a, b \in DOMAIN s : a # b => s[a] # s[b]}

NoCall == [called |-> FALSE, d |-> 0, v |-> 0, tier |-> "none"]

\* closestApproach outside the iterations that assign it
NotEvaluated == [called |-> FALSE, sat1 |-> "", sat2 |-> "", value |-> NoApproach]

Init ==
    /\ pc = "idle"
    /\ satellites = <<>>
    /\ trackableSats = <<>>
    /\ i = 1
    /\ j = 2
    /\ conjunctions = <<>>
    /\ closestApproach = NotEvaluated
    /\ result = <<>>
    /\ rcPrev = NoCall
    /\ rcCur = NoCall
    /\ argument = <<>>
    /\ cascadePrev = NoCascade
    /\ cascade = NoCascade
    /\ impact = NotAssessed
    /\ objects = Catalog
    /\ activeCycles = 0
    /\ fetchState = NoFetch

\* the call with the filter applied to the array passed, in place
StartCycleFiltersInPlace ==
    /\ pc = "idle"
    /\ \E sats \in InputLists :
          /\ argument' = sats
          /\ satellites' = FilterTrackable(sats)
          /\ trackableSats' = FilterTrackable(sats)
    /\ i' = 1
    /\ j' = 2
    /\ conjunctions' = <<>>
    /\ closestApproach' = NotEvaluated
    /\ pc' = "scan"
    /\ activeCycles' = activeCycles + 1
    /\ UNCHANGED <<result, rcPrev, rcCur, cascadePrev, cascade, impact, objects,
                   fetchState>>

\* the call as a task that can be entered while an earlier invocation is
\* between two pairs of its scan
StartCycleReentrant ==
    /\ pc \in {"idle", "scan"}
    /\ \E sats \in InputLists :
          /\ argument' = sats
          /\ satellites' = sats
          /\ trackableSats' = FilterTrackable(sats)
    /\ i' = 1
    /\ j' = 2
    /\ conjunctions' = <<>>
    /\ closestApproach' = NotEvaluated
    /\ pc' = "scan"
    /\ activeCycles' = activeCycles + 1
    /\ UNCHANGED <<result, rcPrev, rcCur, cascadePrev, cascade, impact, objects,
                   fetchState>>

\* a call of detectConjunctions, up to the first test of the loops: filter
\* builds a new array and leaves the one passed as it is.  The function is
\* synchronous (no await, no callback handed out), so a call is entered only
\* when no other call of it is on the stack.
StartCycle ==
    /\ pc = "idle"
    /\ \E sats \in InputLists :
          /\ argument' = sats
          /\ satellites' = sats
          /\ trackableSats' = FilterTrackable(sats)
    /\ i' = 1
    /\ j' = 2
    /\ conjunctions' = <<>>
    /\ closestApproach' = NotEvaluated
    /\ pc' = "scan"
    /\ activeCycles' = activeCycles + 1
    /\ UNCHANGED <<result, rcPrev, rcCur, cascadePrev, cascade, impact, objects,
                   fetchState>>

\* the indices of the pair after (i, j): j++ and, when the inner loop ends,
\* i++ with j = i + 1
AdvanceI == IF j + 1 <= Len(trackableSats) THEN i ELSE i + 1
\* the inner loop starting at the index of the outer one
AdvanceJFromI == IF j + 1 <= Len(trackableSats) THEN j + 1 ELSE i + 1

AdvanceJ == IF j + 1 <= Len(trackableSats) THEN j + 1 ELSE i + 2

\* one iteration of the inner loop whose pair the altitude gate rejects
SkipPair ==
    /\ pc = "scan"
    /\ j <= Len(trackableSats)
    /\ AltitudeGateRejects(trackableSats[i], trackableSats[j])
    /\ closestApproach' = NotEvaluated
    /\ i' = AdvanceI
    /\ j' = AdvanceJ
    /\ UNCHANGED <<pc, satellites, trackableSats, conjunctions, result, rcPrev, rcCur,
                   argument, cascadePrev, cascade, impact, objects, activeCycles,
                   fetchState>>

\* one iteration of the inner loop whose pair is searched
EvaluatePair ==
    /\ pc = "scan"
    /\ j <= Len(trackableSats)
    /\ ~AltitudeGateRejects(trackableSats[i], trackableSats[j])
    /\ LET sat1 == trackableSats[i]
           sat2 == trackableSats[j]
           found == ClosestApproachOf[sat1, sat2]
       IN  /\ closestApproach' =
                  [called |-> TRUE, sat1 |-> sat1, sat2 |-> sat2, value |-> found]
           /\ conjunctions' =
                  IF Qualifies(found)
                  THEN Append(conjunctions, MakeConjunction(sat1, sat2, found))
                  ELSE conjunctions
    /\ i' = AdvanceI
    /\ j' = AdvanceJ
    /\ UNCHANGED <<pc, satellites, trackableSats, result, rcPrev, rcCur,
                   argument, cascadePrev, cascade, impact, objects, activeCycles,
                   fetchState>>

\* the loops are over: sort, slice, return
SortAndReturn ==
    /\ pc = "scan"
    /\ j > Len(trackableSats)
    /\ conjunctions' = SortConjunctions(conjunctions)
    /\ result' = TopSlice(SortConjunctions(conjunctions))
    /\ closestApproach' = NotEvaluated
    /\ pc' = "done"
    /\ activeCycles' = activeCycles - 1
    /\ UNCHANGED <<satellites, trackableSats, i, j, rcPrev, rcCur,
                   argument, cascadePrev, cascade, impact, objects,
                   fetchState>>

\* the caller is done with the returned list; nothing of the cycle is kept
Release ==
    /\ pc = "done"
    /\ pc' = "idle"
    /\ satellites' = <<>>
    /\ argument' = <<>>
    /\ trackableSats' = <<>>
    /\ i' = 1
    /\ j' = 2
    /\ conjunctions' = <<>>
    /\ result' = <<>>
    /\ UNCHANGED <<closestApproach, rcPrev, rcCur, cascadePrev, cascade, impact,
                   objects, activeCycles, fetchState>>

Next == StartCycle \/ SkipPair \/ EvaluatePair \/ SortAndReturn \/ Release

Spec == Init /\ [][Next]_vars

----------------------------------------------------------------------------
(* simulateDebrisCascade and identifyAffectedSatellites on their own: each *)
(* is invoked on demand, outside the detection cycle.                      *)

\* simulateDebrisCascade(conjunction, seed): an invocation, the one before
\* it kept
Simulate ==
    /\ \E conjunction \in CascadeConjunctions, seed \in Seeds, random \in RandomSources :
          cascade' = [called |-> TRUE, conjunction |-> conjunction, seed |-> seed,
                      debris |-> DebrisOf[conjunction, random]]
    /\ cascadePrev' = cascade
    /\ UNCHANGED <<pc, satellites, trackableSats, i, j, conjunctions, closestApproach,
                   result, rcPrev, rcCur, argument, impact, objects, activeCycles,
                   fetchState>>

NextCascade == Simulate

SpecCascade == Init /\ [][NextCascade]_vars

\* identifyAffectedSatellites(debris, allSatellites), once the caller has
\* taken the result of the call before
Assess ==
    /\ ~impact.called
    /\ \E debris \in DebrisInputs, allSatellites \in CatalogLists :
          impact' = [called |-> TRUE, debris |-> debris,
                     allSatellites |-> allSatellites,
                     affected |-> identifyAffectedSatellites(debris, allSatellites)]
    /\ UNCHANGED <<pc, satellites, trackableSats, i, j, conjunctions, closestApproach,
                   result, rcPrev, rcCur, argument, cascadePrev, cascade,
                   objects, activeCycles, fetchState>>

\* the caller takes the returned list
Discard ==
    /\ impact.called
    /\ impact' = NotAssessed
    /\ UNCHANGED <<pc, satellites, trackableSats, i, j, conjunctions, closestApproach,
                   result, rcPrev, rcCur, argument, cascadePrev, cascade,
                   objects, activeCycles, fetchState>>

NextImpact == Assess \/ Discard

SpecImpact == Init /\ [][NextImpact]_vars

----------------------------------------------------------------------------
(* getRiskLevel on its own: the classifier applied to any distance and     *)
(* velocity, the last two calls kept.                                      *)

RiskDistances ==
    {0, 1, 50, 99, 100, 101, 300, 499, 500, 501, 750, 999, 1000, 1001, 2000, Infinity}
RiskVelocities == {0, 80, 150}

Classify ==
    /\ \E d \in RiskDistances, v \in RiskVelocities :
          rcCur' = [called |-> TRUE, d |-> d, v |-> v, tier |-> getRiskLevel(d, v)]
    /\ rcPrev' = rcCur
    /\ UNCHANGED <<pc, satellites, trackableSats, i, j, conjunctions,
                   closestApproach, result, argument, cascadePrev, cascade, impact,
                   objects, activeCycles, fetchState>>

NextRisk == Classify

SpecRisk == Init /\ [][NextRisk]_vars

----------------------------------------------------------------------------
(* fetchSatelliteTLEs as a state machine: the function runs up to an await *)
(* and goes on when the awaited promise settles.                           *)

\* the catch block: the error is logged and the demo set returned
Catch(call, failure) ==
    [call EXCEPT !.pc = "done", !.failure = failure, !.outcome = "returned",
                 !.value = getDemoSatellites]

\* a call, up to `await fetch(url)`
CallFetch ==
    /\ fetchState.pc = "idle"
    /\ \E query \in QueryStrings :
          fetchState' = [NoFetch EXCEPT !.pc = "fetch", !.query = query]
    /\ UNCHANGED <<pc, satellites, trackableSats, i, j, conjunctions, closestApproach,
                   result, rcPrev, rcCur, argument, cascadePrev, cascade, impact,
                   objects, activeCycles>>

\* fetch rejects: the backend cannot be reached
FetchRejects ==
    /\ fetchState.pc = "fetch"
    /\ fetchState' = Catch(fetchState, "network")
    /\ UNCHANGED <<pc, satellites, trackableSats, i, j, conjunctions, closestApproach,
                   result, rcPrev, rcCur, argument, cascadePrev, cascade, impact,
                   objects, activeCycles>>

\* fetch resolves with a response: up to the throw of a response that is
\* not OK, or to `await response.json()`
FetchResolves ==
    /\ fetchState.pc = "fetch"
    /\ \E status \in Statuses :
          fetchState' =
              IF ~ResponseOk(status)
              THEN Catch([fetchState EXCEPT !.status = status], "status")
              ELSE [fetchState EXCEPT !.pc = "json", !.status = status]
    /\ UNCHANGED <<pc, satellites, trackableSats, i, j, conjunctions, closestApproach,
                   result, rcPrev, rcCur, argument, cascadePrev, cascade, impact,
                   objects, activeCycles>>

\* response.json() rejects: the body is not JSON
JsonRejects ==
    /\ fetchState.pc = "json"
    /\ fetchState' = Catch(fetchState, "json")
    /\ UNCHANGED <<pc, satellites, trackableSats, i, j, conjunctions, closestApproach,
                   result, rcPrev, rcCur, argument, cascadePrev, cascade, impact,
                   objects, activeCycles>>

\* response.json() resolves with `data`: the converted list is returned,
\* or the throw (of the function, or of reading a property of null) is
\* caught
JsonResolves ==
    /\ fetchState.pc = "json"
    /\ \E data \in Bodies :
          fetchState' =
              IF BackendDelivers(data)
              THEN [fetchState EXCEPT !.pc = "done", !.data = data,
                                     !.outcome = "returned",
                                     !.value = ConvertSatellites(data.satellites)]
              ELSE Catch([fetchState EXCEPT !.data = data], "nodata")
    /\ UNCHANGED <<pc, satellites, trackableSats, i, j, conjunctions, closestApproach,
                   result, rcPrev, rcCur, argument, cascadePrev, cascade, impact,
                   objects, activeCycles>>

\* the caller has the list; the next call can be made
TakeFetched ==
    /\ fetchState.pc = "done"
    /\ fetchState' = NoFetch
    /\ UNCHANGED <<pc, satellites, trackableSats, i, j, conjunctions, closestApproach,
                   result, rcPrev, rcCur, argument, cascadePrev, cascade, impact,
                   objects, activeCycles>>

NextFetch ==
    CallFetch \/ FetchRejects \/ FetchResolves \/ JsonRejects \/ JsonResolves
        \/ TakeFetched

SpecFetch == Init /\ [][NextFetch]_vars

----------------------------------------------------------------------------
(* findClosestApproach on its own: the search applied to any two objects,  *)
(* whatever list they come from.                                           *)

Search ==
    /\ \E sat1, sat2 \in Objects :
          /\ sat1 # sat2
          /\ closestApproach' =
                 [called |-> TRUE, sat1 |-> sat1, sat2 |-> sat2,
                  value |-> ClosestApproachOf[sat1, sat2]]
    /\ UNCHANGED <<pc, satellites, trackableSats, i, j, conjunctions, result,
                   rcPrev, rcCur, argument, cascadePrev, cascade, impact, objects,
                   activeCycles, fetchState>>

NextSearch == Search

SpecSearch == Init /\ [][NextSearch]_vars

----------------------------------------------------------------------------
(* Vocabulary of the properties *)

Samples == 0..TIME_STEPS

\* per pair of catalog objects, the samples at which both resolve
ResolvedSamples ==
    [sat1 \in Objects, sat2 \in Objects |->
        {k \in Samples :
            /\ propagateSatellitePosition(sat1, MinutesAhead(k)).resolved
            /\ propagateSatellitePosition(sat2, MinutesAhead(k)).resolved}]

\* per pair of catalog objects, the distance computed at each sample
SampledDistance ==
    [sat1 \in Objects, sat2 \in Objects |->
        [k \in Samples |->
            calculateDistance3D(
                propagateSatellitePosition(sat1, MinutesAhead(k)).position,
                propagateSatellitePosition(sat2, MinutesAhead(k)).position)]]

\* both objects resolve at the sample `step`
BothResolved(sat1, sat2, step) == step \in ResolvedSamples[sat1, sat2]

\* the distance computed at the sample `step`
DistanceAt(sat1, sat2, step) == SampledDistance[sat1, sat2][step]

\* per pair of catalog objects, the samples that yield a distance that is a
\* finite number
FiniteSamples ==
    [sat1 \in Objects, sat2 \in Objects |->
        {k \in ResolvedSamples[sat1, sat2] :
            /\ ~IsNaN(SampledDistance[sat1, sat2][k])
            /\ SampledDistance[sat1, sat2][k] # Infinity}]

\* the sample yields a distance that is a finite number
FiniteSample(sat1, sat2, step) == step \in FiniteSamples[sat1, sat2]

\* per pair of catalog objects, the least distance over the finite samples
\* (Infinity when there is none)
MinimumDistance ==
    [sat1 \in Objects, sat2 \in Objects |->
        IF FiniteSamples[sat1, sat2] = {}
        THEN Infinity
        ELSE SampledDistance[sat1, sat2][
                 CHOOSE k \in FiniteSamples[sat1, sat2] :
                     \A m \in FiniteSamples[sat1, sat2] :
                         SampledDistance[sat1, sat2][k] <= SampledDistance[sat1, sat2][m]]]

\* per pair of catalog objects, the offsets of the samples attaining it
MinimumTimes ==
    [sat1 \in Objects, sat2 \in Objects |->
        {MinutesAhead(k) : k \in {m \in FiniteSamples[sat1, sat2] :
            SampledDistance[sat1, sat2][m] = MinimumDistance[sat1, sat2]}}]

\* the conjunctions a state holds: those collected so far and those returned
Held == {conjunctions[n] : n \in DOMAIN conjunctions} \cup {result[n] : n \in DOMAIN result}

\* the position of an object in the filtered list (0 when it is not in it)
IndexOf(sat) ==
    IF \E n \in DOMAIN trackableSats : trackableSats[n] = sat
    THEN CHOOSE n \in DOMAIN trackableSats : trackableSats[n] = sat
    ELSE 0

\* the pairs of list positions the scan visits
ScannedPairs ==
    {p \in (DOMAIN trackableSats) \X (DOMAIN trackableSats) : p[1] < p[2]}

----------------------------------------------------------------------------
(* C1: no conjunction collected or returned by detectConjunctions joins    *)
(* two objects whose altitudes differ by more than 100 km, whatever their  *)
(* trajectories.                                                           *)
C1_AltitudeGate ==
    \A c \in Held :
        (HasAltitude(c.sat1) /\ HasAltitude(c.sat2))
            => Abs(Altitude(c.sat1) - Altitude(c.sat2)) <= 100

\* a finished cycle over a list with a pair more than 100 km apart in
\* altitude whose sampled distance would qualify, and with some conjunction
C1_Witness ==
    /\ pc = "done"
    /\ result # <<>>
    /\ \E p \in ScannedPairs :
          LET sat1 == trackableSats[p[1]]
              sat2 == trackableSats[p[2]]
          IN  /\ HasAltitude(sat1) /\ HasAltitude(sat2)
              /\ Abs(Altitude(sat1) - Altitude(sat2)) > 100
              /\ Qualifies(ClosestApproachOf[sat1, sat2])

----------------------------------------------------------------------------
(* C2: every conjunction collected or returned has missDistance strictly   *)
(* below 1.0 km, so none carries the tier MODERATE; a pair whose best      *)
(* sampled distance is 1.0 km or more is not materialized.                 *)
C2_BelowThreshold ==
    /\ \A c \in Held :
          /\ Lt(c.missDistance, 1000)
          /\ c.riskLevel # "MODERATE"
    /\ (closestApproach.called /\ ~Lt(closestApproach.value.missDistance, 1000))
          => \A c \in Held :
                ~(c.sat1 = closestApproach.sat1 /\ c.sat2 = closestApproach.sat2)

\* a finished cycle that searched a pair whose best sampled distance is
\* exactly 1.0 km and returned other conjunctions
C2_Witness ==
    /\ pc = "done"
    /\ result # <<>>
    /\ \E p \in ScannedPairs :
          LET sat1 == trackableSats[p[1]]
              sat2 == trackableSats[p[2]]
          IN  /\ ~AltitudeGateRejects(sat1, sat2)
              /\ ClosestApproachOf[sat1, sat2].found
              /\ ClosestApproachOf[sat1, sat2].missDistance = 1000

----------------------------------------------------------------------------
(* C3: the tier getRiskLevel returns depends on missDistance alone and is  *)
(* CRITICAL below 0.1 km, HIGH from 0.1 to below 0.5, ELEVATED from 0.5 to *)
(* below 1.0 and MODERATE from 1.0 on; it never becomes less severe as     *)
(* missDistance decreases.                                                 *)

\* the table of the specification, in metres
TierOfTable(d) ==
    CASE d < 100 -> "CRITICAL"
      [] d >= 100 /\ d < 500 -> "HIGH"
      [] d >= 500 /\ d < 1000 -> "ELEVATED"
      [] OTHER -> "MODERATE"

Severity(tier) ==
    CASE tier = "CRITICAL" -> 3
      [] tier = "HIGH" -> 2
      [] tier = "ELEVATED" -> 1
      [] OTHER -> 0

----------------------------------------------------------------------------
(* C4: the list detectConjunctions returns has at most 5 entries and is    *)
(* ordered by non-decreasing timeToClosestApproach.                        *)
C4_SortedTopFive ==
    pc = "done" =>
        /\ Len(result) <= 5
        /\ \A m, n \in DOMAIN result :
              m < n => result[m].timeToClosestApproach <= result[n].timeToClosestApproach

\* a finished cycle with more than 5 qualifying pairs, of different times,
\* of which 5 are returned
C4_Witness ==
    /\ pc = "done"
    /\ Len(conjunctions) > 5
    /\ Len(result) = 5
    /\ result[1].timeToClosestApproach < result[5].timeToClosestApproach

----------------------------------------------------------------------------
(* C5 as stated: of two qualifying conjunctions with equal                 *)
(* timeToClosestApproach, the one with the smaller missDistance comes      *)
(* first in the sorted list (and so is the one kept by the truncation).    *)
C5_TiesBySmallerDistance ==
    pc = "done" =>
        \A m, n \in DOMAIN conjunctions :
            (/\ m < n
             /\ conjunctions[m].timeToClosestApproach = conjunctions[n].timeToClosestApproach)
                => conjunctions[m].missDistance <= conjunctions[n].missDistance

\* the pair of a conjunction is scanned before the pair of another
ScannedBefore(c, d) ==
    \/ IndexOf(c.sat1) < IndexOf(d.sat1)
    \/ IndexOf(c.sat1) = IndexOf(d.sat1) /\ IndexOf(c.sat2) < IndexOf(d.sat2)

(* C5 amended: of two qualifying conjunctions with equal                   *)
(* timeToClosestApproach, the one whose pair was scanned first comes first *)
(* in the sorted list, whatever the missDistances, and the returned list   *)
(* is the head of the sorted list, so the truncation keeps that one.       *)
C5_TiesInScanOrder ==
    pc = "done" =>
        /\ \A m, n \in DOMAIN conjunctions :
              (/\ m < n
               /\ conjunctions[m].timeToClosestApproach = conjunctions[n].timeToClosestApproach)
                  => ScannedBefore(conjunctions[m], conjunctions[n])
        /\ Len(result) <= Len(conjunctions)
        /\ \A n \in DOMAIN result : result[n] = conjunctions[n]

\* a returned list in which, of two conjunctions of equal time, the one with
\* the larger missDistance comes first
C5_Witness ==
    /\ pc = "done"
    /\ \E m, n \in DOMAIN result :
          /\ m < n
          /\ result[m].timeToClosestApproach = result[n].timeToClosestApproach
          /\ result[m].missDistance > result[n].missDistance

----------------------------------------------------------------------------
(* C6: for a searched pair, the missDistance findClosestApproach reports   *)
(* is the minimum of the distances over the samples k = 0..30 at which     *)
(* both objects resolved, and timeToClosestApproach is the offset          *)
(* k/30 * 30 minutes of a sample that attains it.                          *)

\* an approach reports the minimum over the samples, at a sample attaining it
ReportsMinimum(sat1, sat2, approach) ==
    /\ FiniteSamples[sat1, sat2] # {}
    /\ approach.missDistance = MinimumDistance[sat1, sat2]
    /\ approach.timeToClosestApproach \in MinimumTimes[sat1, sat2]

C6_MinimumOverSamples ==
    /\ (closestApproach.called /\ closestApproach.value.found)
          => ReportsMinimum(closestApproach.sat1, closestApproach.sat2,
                            closestApproach.value)
    /\ \A c \in Held : ReportsMinimum(c.sat1, c.sat2, c)

\* a search whose minimum lies strictly inside the horizon, with larger
\* distances sampled before and after it
C6_Witness ==
    /\ closestApproach.called
    /\ closestApproach.value.found
    /\ \E k \in Samples :
          /\ MinutesAhead(k) < closestApproach.value.timeToClosestApproach
          /\ FiniteSample(closestApproach.sat1, closestApproach.sat2, k)
          /\ DistanceAt(closestApproach.sat1, closestApproach.sat2, k)
                > closestApproach.value.missDistance
    /\ \E k \in Samples :
          /\ MinutesAhead(k) > closestApproach.value.timeToClosestApproach
          /\ FiniteSample(closestApproach.sat1, closestApproach.sat2, k)
          /\ DistanceAt(closestApproach.sat1, closestApproach.sat2, k)
                > closestApproach.value.missDistance

----------------------------------------------------------------------------
(* C7: the relativeVelocity findClosestApproach reports is the norm of the *)
(* difference of the two velocities resolved at the sample of the reported *)
(* missDistance, and is never a value computed at another sample, also     *)
(* when a velocity is absent at that sample.                               *)
C7_VelocityOfClosestSample ==
    (closestApproach.called /\ closestApproach.value.found) =>
        LET t == closestApproach.value.timeToClosestApproach
            s1 == propagateSatellitePosition(closestApproach.sat1, t)
            s2 == propagateSatellitePosition(closestApproach.sat2, t)
        IN  /\ closestApproach.value.relVelFrom \subseteq {t}
            /\ (s1.velocity.ok /\ s2.velocity.ok)
                  => closestApproach.value.relativeVelocity
                        = calculateRelativeVelocity(s1.velocity, s2.velocity)

----------------------------------------------------------------------------
(* C8: every conjunction collected or returned has timeToClosestApproach   *)
(* within [0, 30] minutes, missDistance >= 0 and relativeVelocity >= 0.    *)
C8_Ranges ==
    \A c \in Held :
        /\ ~IsNaN(c.timeToClosestApproach)
        /\ c.timeToClosestApproach >= 0
        /\ c.timeToClosestApproach <= 30
        /\ ~IsNaN(c.missDistance) /\ c.missDistance >= 0
        /\ ~IsNaN(c.relativeVelocity) /\ c.relativeVelocity >= 0

\* a returned list with a conjunction at the first sample and one at the
\* last sample, at distance 0
C8_Witness ==
    /\ pc = "done"
    /\ \E c \in Held : c.timeToClosestApproach = 0
    /\ \E c \in Held : c.timeToClosestApproach = 30 /\ c.missDistance = 0

----------------------------------------------------------------------------
----------------------------------------------------------------------------
(* C10: a pair none of whose samples yields a finite distance gets no      *)
(* conjunction from findClosestApproach and is absent from the output,     *)
(* and a cycle in which no pair qualifies returns the empty list.          *)

\* the pair at these list positions passes the gate and has a sample closer
\* than the threshold
PairQualifies(p) ==
    /\ ~AltitudeGateRejects(trackableSats[p[1]], trackableSats[p[2]])
    /\ MinimumDistance[trackableSats[p[1]], trackableSats[p[2]]] < HIGH_RISK_THRESHOLD_KM

----------------------------------------------------------------------------
(* C11: the distance computed for (a, b) equals the distance computed for  *)
(* (b, a) at every sample, and findClosestApproach(a, b) and               *)
(* findClosestApproach(b, a) report the same missDistance and the same     *)
(* timeToClosestApproach (or both report nothing).                         *)
C11_Symmetric ==
    closestApproach.called =>
        LET a == closestApproach.sat1
            b == closestApproach.sat2
            swapped == ClosestApproachOf[b, a]
        IN  /\ \A k \in Samples : DistanceAt(a, b, k) = DistanceAt(b, a, k)
            /\ swapped.found = closestApproach.value.found
            /\ swapped.missDistance = closestApproach.value.missDistance
            /\ swapped.timeToClosestApproach
                  = closestApproach.value.timeToClosestApproach

\* a searched pair found apart on every axis at its closest approach, after
\* the first sample
C11_Witness ==
    /\ closestApproach.called
    /\ closestApproach.value.found
    /\ closestApproach.value.timeToClosestApproach > 0
    /\ closestApproach.value.positions.sat1.y # closestApproach.value.positions.sat2.y
    /\ closestApproach.value.positions.sat1.z # closestApproach.value.positions.sat2.z

----------------------------------------------------------------------------
(* C12: for a catalog of exactly two objects with altitudes within 100 km  *)
(* of each other whose sampled separation is least at the minute-12 sample *)
(* only, 0.05 km there, with relative velocity 8 km/s there,               *)
(* detectConjunctions returns exactly one conjunction: CRITICAL,           *)
(* timeToClosestApproach 12, missDistance 0.05, relativeVelocity 8.        *)

\* the input of the running cycle is the scenario of the claim
C12_Scenario ==
    /\ Len(satellites) = 2
    /\ LET a == satellites[1]
           b == satellites[2]
           atTwelve1 == propagateSatellitePosition(a, 12)
           atTwelve2 == propagateSatellitePosition(b, 12)
       IN  /\ HasAltitude(a) /\ HasAltitude(b)
           /\ Abs(Altitude(a) - Altitude(b)) <= ALTITUDE_GATE_KM
           /\ MinimumDistance[a, b] = 50
           /\ MinimumTimes[a, b] = {12}
           /\ atTwelve1.velocity.ok /\ atTwelve2.velocity.ok
           /\ calculateRelativeVelocity(atTwelve1.velocity, atTwelve2.velocity) = 80

C12_HeadOnScenario ==
    (pc = "done" /\ C12_Scenario) =>
        /\ Len(result) = 1
        /\ {result[1].sat1, result[1].sat2} = {satellites[1], satellites[2]}
        /\ result[1].riskLevel = "CRITICAL"
        /\ result[1].timeToClosestApproach = 12
        /\ result[1].missDistance = 50
        /\ result[1].relativeVelocity = 80

\* a finished cycle over the two objects of the scenario
C12_Witness == pc = "done" /\ C12_Scenario

----------------------------------------------------------------------------
(* C13: simulateDebrisCascade returns exactly floor(50 + 10 *              *)
(* relativeVelocity) fragments, whatever the random draws (150 for         *)
(* relativeVelocity = 10 km/s): at least 50, and no fewer for a larger     *)
(* relativeVelocity.                                                       *)
C13_FragmentCount ==
    /\ cascade.called =>
          /\ Len(cascade.debris)
                = 50 + (10 * cascade.conjunction.relativeVelocity) \div TenthsPerKmS
          /\ Len(cascade.debris) >= 50
          /\ cascade.conjunction.relativeVelocity = 10 * TenthsPerKmS
                => Len(cascade.debris) = 150
    /\ (cascadePrev.called /\ cascade.called) =>
          /\ cascadePrev.conjunction = cascade.conjunction
                => Len(cascadePrev.debris) = Len(cascade.debris)
          /\ cascadePrev.conjunction.relativeVelocity
                <= cascade.conjunction.relativeVelocity
                => Len(cascadePrev.debris) <= Len(cascade.debris)

\* two invocations on the conjunction of 10 km/s whose draws differed
C13_Witness ==
    /\ cascadePrev.called
    /\ cascade.called
    /\ cascadePrev.conjunction = cascade.conjunction
    /\ cascade.conjunction.relativeVelocity = 10 * TenthsPerKmS
    /\ cascadePrev.debris # cascade.debris
    /\ Len(cascade.debris) = 150

----------------------------------------------------------------------------
(* C14: every fragment has each component of its velocity perturbation     *)
(* within [-0.15, +0.15] times the conjunction's relativeVelocity and a    *)
(* size within [0, 0.5].                                                   *)

\* 0.15 * relativeVelocity, in the unit of the perturbations
PerturbationBound(relativeVelocity) == (15 * RANDOM_SCALE * relativeVelocity) \div 10

\* 0.5, in the unit of the sizes
SizeBound == (RANDOM_SCALE * 10) \div 2

C14_FragmentRanges ==
    cascade.called =>
        \A n \in DOMAIN cascade.debris :
            LET frag == cascade.debris[n]
                bound == PerturbationBound(cascade.conjunction.relativeVelocity)
            IN  /\ -bound <= frag.velocity.x /\ frag.velocity.x <= bound
                /\ -bound <= frag.velocity.y /\ frag.velocity.y <= bound
                /\ -bound <= frag.velocity.z /\ frag.velocity.z <= bound
                /\ 0 <= frag.size /\ frag.size <= SizeBound

\* an invocation whose draws were the least, after one whose draws were the
\* greatest, on conjunctions with a relative velocity
C14_Witness ==
    /\ cascade.called
    /\ cascade.conjunction.relativeVelocity > 0
    /\ \E n \in DOMAIN cascade.debris :
          /\ cascade.debris[n].velocity.x
                = -PerturbationBound(cascade.conjunction.relativeVelocity)
          /\ cascade.debris[n].size = 0
    /\ cascadePrev.called
    /\ cascadePrev.conjunction.relativeVelocity > 0
    /\ \E n \in DOMAIN cascadePrev.debris :
          /\ cascadePrev.debris[n].velocity.z > 0
          /\ cascadePrev.debris[n].size = FragmentSize(RANDOM_SCALE - 1)

----------------------------------------------------------------------------
(* C15: every fragment starts at the position the first object of the pair *)
(* was resolved to at the sample of closest approach, the position         *)
(* recorded with the conjunction's missDistance, and carries the names of  *)
(* both objects of the pair.                                               *)
C15_FragmentOrigin ==
    cascade.called =>
        LET c == cascade.conjunction
            first == propagateSatellitePosition(c.sat1, c.timeToClosestApproach)
            second == propagateSatellitePosition(c.sat2, c.timeToClosestApproach)
        IN  \A n \in DOMAIN cascade.debris :
                /\ first.resolved
                /\ cascade.debris[n].position = first.position
                /\ calculateDistance3D(cascade.debris[n].position, second.position)
                      = c.missDistance
                /\ cascade.debris[n].satellite1Name = c.sat1
                /\ cascade.debris[n].satellite2Name = c.sat2

\* an invocation on a conjunction whose objects are apart at the closest
\* approach, which is not at the first sample
C15_Witness ==
    /\ cascade.called
    /\ Len(cascade.debris) > 0
    /\ cascade.conjunction.timeToClosestApproach > 0
    /\ cascade.conjunction.missDistance > 0
    /\ cascade.conjunction.positions.sat1 # cascade.conjunction.positions.sat2

----------------------------------------------------------------------------
(* C16: two invocations of simulateDebrisCascade with the same conjunction *)
(* and the same supplied seed produce identical fragment lists.            *)
C16_ReproducibleWithSeed ==
    (/\ cascadePrev.called
     /\ cascade.called
     /\ cascadePrev.conjunction = cascade.conjunction
     /\ cascadePrev.seed = cascade.seed)
        => cascadePrev.debris = cascade.debris

----------------------------------------------------------------------------
(* Vocabulary of the properties of identifyAffectedSatellites *)

\* the object has a record in the list returned
Flagged(sat) == \E n \in DOMAIN impact.affected : impact.affected[n].satellite = sat

\* per object and fragment list: the object has a position and some
\* fragment with a position is less than 100 km from it
WithinRadius ==
    [sat \in Names, debris \in DebrisInputs |->
        /\ Position(sat).ok
        /\ \E m \in DOMAIN debris :
              /\ debris[m].position.ok
              /\ Lt(calculateDistance3D(Position(sat), debris[m].position),
                    100 * MetresPerKm)]

\* per object and fragment list: the object is exactly at the position of
\* a fragment
AtFragment ==
    [sat \in Names, debris \in DebrisInputs |->
        /\ Position(sat).ok
        /\ ~IsNaN(Position(sat).x)
        /\ \E m \in DOMAIN debris : debris[m].position = Position(sat)]

\* per object and fragment list: the object is at least 200 km from every
\* fragment that has a position
FarFromAll ==
    [sat \in Names, debris \in DebrisInputs |->
        /\ Position(sat).ok
        /\ ~IsNaN(Position(sat).x)
        /\ \A m \in DOMAIN debris :
              debris[m].position.ok =>
                  calculateDistance3D(Position(sat), debris[m].position)
                      >= 200 * MetresPerKm]

\* the objects of the catalog passed
CatalogObjects == {impact.allSatellites[n] : n \in DOMAIN impact.allSatellites}

----------------------------------------------------------------------------
(* C17: identifyAffectedSatellites flags an object of the catalog if and   *)
(* only if the object has a position and some fragment with a position is  *)
(* less than 100 km from it; an object exactly at a fragment's position is *)
(* flagged and an object 200 km from every fragment is not.                *)
C17_FlaggedIffWithinRadius ==
    impact.called =>
        \A sat \in CatalogObjects :
            /\ Flagged(sat) <=> WithinRadius[sat, impact.debris]
            /\ AtFragment[sat, impact.debris] => Flagged(sat)
            /\ FarFromAll[sat, impact.debris] => ~Flagged(sat)

\* a call on a catalog with an object at a fragment's position, an object
\* exactly 100 km from the fragments and an object 200 km from them
C17_Witness ==
    /\ impact.called
    /\ \E sat \in CatalogObjects : AtFragment[sat, impact.debris] /\ Flagged(sat)
    /\ \E sat \in CatalogObjects :
          /\ ~Flagged(sat)
          /\ \E m \in DOMAIN impact.debris :
                calculateDistance3D(Position(sat), impact.debris[m].position)
                    = 100 * MetresPerKm
    /\ \E sat \in CatalogObjects :
          /\ FarFromAll[sat, impact.debris]
          /\ \E m \in DOMAIN impact.debris : impact.debris[m].position.ok

----------------------------------------------------------------------------
(* C18: identifyAffectedSatellites returns exactly one record for each     *)
(* flagged object and none for the others; every record refers to its      *)
(* object and has risk level "ELEVATED" and a fixed reason.                *)

\* the records of the list returned that refer to the object
RecordsOf(sat) == {n \in DOMAIN impact.affected : impact.affected[n].satellite = sat}

\* the claim with the reason as `reason`
OneRecordPerFlagged(reason) ==
    impact.called =>
        /\ \A sat \in CatalogObjects :
              Cardinality(RecordsOf(sat))
                  = IF WithinRadius[sat, impact.debris] THEN 1 ELSE 0
        /\ \A n \in DOMAIN impact.affected :
              /\ impact.affected[n].satellite \in CatalogObjects
              /\ impact.affected[n].riskLevel = "ELEVATED"
              /\ impact.affected[n].reason = reason

\* as stated: the reason is "in debris field path"
C18_ReasonLowerCase == OneRecordPerFlagged("in debris field path")

\* as amended: the reason is "In debris field path"
C18_OneRecordPerFlagged == OneRecordPerFlagged("In debris field path")

\* a call that returned two records for a catalog of three objects
C18_Witness ==
    /\ impact.called
    /\ Len(impact.allSatellites) = 3
    /\ Len(impact.affected) = 2

----------------------------------------------------------------------------
(* C19: an object without a position never appears in the list returned    *)
(* by identifyAffectedSatellites, and the records of the other objects are *)
(* those returned for the catalog without it.                              *)

\* the catalog passed, without the objects that have no position
WithPosition == SelectSeq(impact.allSatellites, LAMBDA sat : Position(sat).ok)

C19_PositionlessExcluded ==
    impact.called =>
        /\ \A n \in DOMAIN impact.affected : Position(impact.affected[n].satellite).ok
        /\ impact.affected = identifyAffectedSatellites(impact.debris, WithPosition)

\* a call on a catalog holding an object without a position, with fragments
\* near the origin, that returned a record for another object
C19_Witness ==
    /\ impact.called
    /\ \E sat \in CatalogObjects : ~Position(sat).ok
    /\ \E m \in DOMAIN impact.debris :
          /\ impact.debris[m].position.ok
          /\ calculateDistance3D(NoVec, impact.debris[m].position) < 100 * MetresPerKm
    /\ Len(impact.affected) >= 1

----------------------------------------------------------------------------
(* C20: a detection cycle writes nothing beyond its return value: the      *)
(* input list is, during the cycle and after it, as the caller passed it,  *)
(* every field of every tracked object is as it was, and the list returned *)
(* is determined by the input alone, whatever cycles ran before.           *)

RECURSIVE CollectFrom(_, _, _)
\* the conjunctions of the pairs of `sats` from the pair (a, b) on, in the
\* order of the scan
CollectFrom(sats, a, b) ==
    IF b > Len(sats)
    THEN IF a + 1 >= Len(sats) THEN <<>> ELSE CollectFrom(sats, a + 1, a + 2)
    ELSE IF /\ ~AltitudeGateRejects(sats[a], sats[b])
            /\ Qualifies(ClosestApproachOf[sats[a], sats[b]])
         THEN <<DetectedConjunction(sats[a], sats[b])>> \o CollectFrom(sats, a, b + 1)
         ELSE CollectFrom(sats, a, b + 1)

\* what a cycle returns, as a function of the list passed
DetectOf(sats) == TopSlice(SortConjunctions(CollectFrom(FilterTrackable(sats), 1, 2)))

C20_WritesNothing ==
    /\ pc \in {"scan", "done"} => satellites = argument
    /\ objects = Catalog
    /\ pc = "done" => result = DetectOf(argument)

\* a finished cycle whose filter dropped an object of the list and whose
\* sort moved a conjunction
C20_Witness ==
    /\ pc = "done"
    /\ Len(trackableSats) < Len(satellites)
    /\ Len(result) >= 2
    /\ result # CollectFrom(trackableSats, 1, 2)

----------------------------------------------------------------------------
----------------------------------------------------------------------------
(* C22: a detection cycle that exceeds its allotted budget terminates      *)
(* early and returns the conjunctions found so far, instead of continuing  *)
(* through all remaining pairs.                                            *)

\* the pair iterations the running cycle has gone through: the pairs of
\* list positions before (i, j) in the order of the scan
PairsVisited ==
    Cardinality({p \in ScannedPairs : p[1] < i \/ (p[1] = i /\ p[2] < j)})

\* a budget of a cycle, counted in pair iterations (each takes time); the
\* code declares no budget and reads the clock once, for the ids
CycleBudget == 2

\* the cycle goes at most one iteration beyond its budget
C22_StopsOnBudget ==
    pc \in {"scan", "done"} => PairsVisited <= CycleBudget + 1

----------------------------------------------------------------------------
(* C23: a tracked object without the fields candidate filtering needs (no  *)
(* altitude, with or without a propagator handle) is excluded from the     *)
(* cycle: it is in no conjunction collected or returned, and the list      *)
(* returned is the one returned for the input without it.                  *)

\* the list passed, without the objects that have no altitude
WellFormed(sats) == SelectSeq(sats, LAMBDA sat : HasAltitude(sat))

C23_MalformedExcluded ==
    /\ \A c \in Held : HasAltitude(c.sat1) /\ HasAltitude(c.sat2)
    /\ pc = "done" => result = DetectOf(WellFormed(argument))

----------------------------------------------------------------------------
(* C24: fetchSatelliteTLEs never throws, and whenever the backend request  *)
(* fails (network error, status that is not OK, success flag false, or an  *)
(* empty satellite list) it returns the demo satellite set, which is not   *)
(* empty.                                                                  *)

\* the request of the finished call failed in one of the ways of the claim
BackendFailed ==
    \/ fetchState.failure = "network"
    \/ fetchState.status # 0 /\ ~ResponseOk(fetchState.status)
    \/ fetchState.data.isObject /\ ~fetchState.data.success
    \/ /\ fetchState.data.isObject
       /\ fetchState.data.hasSatellites
       /\ fetchState.data.satellites = <<>>

C24_FallbackToDemo ==
    /\ fetchState.outcome \in {"none", "returned"}
    /\ fetchState.pc = "done" => fetchState.outcome = "returned"
    /\ (fetchState.pc = "done" /\ BackendFailed)
          => /\ fetchState.value = getDemoSatellites
             /\ fetchState.value # <<>>
             /\ \A n \in DOMAIN fetchState.value : fetchState.value[n].isDemoMode

\* a finished call whose response was OK, with the success flag set and
\* an empty satellite list
C24_Witness ==
    /\ fetchState.pc = "done"
    /\ fetchState.status = 200
    /\ fetchState.data.isObject
    /\ fetchState.data.success
    /\ fetchState.data.hasSatellites
    /\ fetchState.data.satellites = <<>>
    /\ Len(fetchState.value) = 388

----------------------------------------------------------------------------
(* C25: the list returned is exactly the first min(5, n) entries of the n  *)
(* qualifying conjunctions of the cycle in the order of                    *)
(* timeToClosestApproach: every pair of the filtered list with altitudes   *)
(* at most 100 km apart (exactly 100 km included) and a sampled minimum    *)
(* distance below 1.0 km has its conjunction among the n, and no omitted   *)
(* conjunction is strictly sooner than a returned one.                     *)

\* the pair has both altitudes, at most 100 km apart, and a sample closer
\* than 1.0 km
WithinGateAndThreshold(p) ==
    LET sat1 == trackableSats[p[1]]
        sat2 == trackableSats[p[2]]
    IN  /\ HasAltitude(sat1) /\ HasAltitude(sat2)
        /\ Abs(Altitude(sat1) - Altitude(sat2)) <= 100
        /\ MinimumDistance[sat1, sat2] < 1000

\* the conjunctions of the sorted list that are of the pair
ConjunctionsOfPair(p) ==
    {n \in DOMAIN conjunctions :
        /\ conjunctions[n].sat1 = trackableSats[p[1]]
        /\ conjunctions[n].sat2 = trackableSats[p[2]]}

C25_TopFiveOfQualifying ==
    pc = "done" =>
        /\ \A p \in ScannedPairs :
              WithinGateAndThreshold(p) => Cardinality(ConjunctionsOfPair(p)) = 1
        /\ Len(conjunctions) = Cardinality({p \in ScannedPairs : PairQualifies(p)})
        /\ \A m, n \in DOMAIN conjunctions :
              m < n => conjunctions[m].timeToClosestApproach
                          <= conjunctions[n].timeToClosestApproach
        /\ Len(result) = Min(5, Len(conjunctions))
        /\ \A n \in DOMAIN result : result[n] = conjunctions[n]
        /\ \A m \in DOMAIN result, n \in DOMAIN conjunctions :
              n > Len(result) => result[m].timeToClosestApproach
                                    <= conjunctions[n].timeToClosestApproach

\* a finished cycle with six qualifying pairs, one of them of objects
\* exactly 100 km apart in altitude, that returned five and left out one
\* later than the first returned
C25_Witness ==
    /\ pc = "done"
    /\ Len(conjunctions) = 6
    /\ Len(result) = 5
    /\ \E n \in DOMAIN result :
          /\ HasAltitude(result[n].sat1) /\ HasAltitude(result[n].sat2)
          /\ Abs(Altitude(result[n].sat1) - Altitude(result[n].sat2)) = 100
    /\ conjunctions[6].timeToClosestApproach > result[1].timeToClosestApproach

----------------------------------------------------------------------------
(* C26: the resolver is chosen by the shape of the object.  For an object  *)
(* with a propagator handle the resolved state is the propagator's result, *)
(* and where the propagator yields no position the object is unresolved    *)
(* at that sample, the circular-orbit model never standing in for it.  The *)
(* circular-orbit model resolves only objects without a handle that have   *)
(* altitude, latitude and longitude; any other object is unresolved.       *)

\* the claim for one object at one sample
ResolvedByShape(sat, k) ==
    LET t == MinutesAhead(k)
        state == propagateSatellitePosition(sat, t)
        sgp4 == satellite_propagate(sat, t)
    IN  /\ HasSatrec(sat) =>
              IF sgp4.position.ok
              THEN /\ state.resolved
                   /\ state.position = sgp4.position
                   /\ state.velocity = sgp4.velocity
              ELSE ~state.resolved
        /\ (~HasSatrec(sat) /\ state.resolved) =>
              /\ HasAltitude(sat) /\ HasLatLon(sat)
              /\ state = propagateSimple(sat, t)
        /\ (~HasSatrec(sat) /\ ~(HasAltitude(sat) /\ HasLatLon(sat))) =>
              ~state.resolved

\* per catalog object: the claim at every sample
ResolvedByShapeAtAll == [sat \in Names |-> \A k \in Samples : ResolvedByShape(sat, k)]

----------------------------------------------------------------------------
(* C27: within one cycle each unordered pair of objects of the filtered    *)
(* list is evaluated at most once and no object is paired with itself: the *)
(* pair under evaluation is of two positions, the first before the second, *)
(* that no conjunction collected so far is of; no two conjunctions         *)
(* collected or returned are of the same two positions, and in each of     *)
(* them sat1 precedes sat2 in the input order.                             *)

\* the position of an object in the list passed (0 when it is not in it)
InputIndexOf(sat) ==
    IF \E n \in DOMAIN argument : argument[n] = sat
    THEN CHOOSE n \in DOMAIN argument : argument[n] = sat
    ELSE 0

\* in a list of conjunctions, no two are of the same two objects
DistinctPairs(seq) ==
    \A m, n \in DOMAIN seq :
        m # n => {seq[m].sat1, seq[m].sat2} # {seq[n].sat1, seq[n].sat2}

C27_EachPairOnce ==
    /\ (pc = "scan" /\ j <= Len(trackableSats)) =>
          /\ 1 <= i /\ i < j
          /\ \A c \in Held :
                \/ IndexOf(c.sat1) < i
                \/ IndexOf(c.sat1) = i /\ IndexOf(c.sat2) < j
    /\ closestApproach.called =>
          /\ closestApproach.sat1 # closestApproach.sat2
          /\ 0 < IndexOf(closestApproach.sat1)
          /\ IndexOf(closestApproach.sat1) < IndexOf(closestApproach.sat2)
    /\ DistinctPairs(conjunctions)
    /\ DistinctPairs(result)
    /\ \A c \in Held :
          /\ c.sat1 # c.sat2
          /\ 0 < InputIndexOf(c.sat1)
          /\ InputIndexOf(c.sat1) < InputIndexOf(c.sat2)

\* a finished cycle over four objects that returned conjunctions of one
\* object with three others, and of two of those with each other
C27_Witness ==
    /\ pc = "done"
    /\ Len(trackableSats) = 4
    /\ \E a, b \in DOMAIN result :
          /\ result[a].sat1 = result[b].sat1
          /\ result[a].sat2 # result[b].sat2
          /\ \E c \in DOMAIN result :
                {result[c].sat1, result[c].sat2} = {result[a].sat2, result[b].sat2}

----------------------------------------------------------------------------
(* C28: when the least sampled distance of a pair is attained at more than *)
(* one sample, findClosestApproach reports the earliest of them:           *)
(* timeToClosestApproach and the recorded positions are those of the       *)
(* smallest k attaining the minimum, and relativeVelocity is the one of    *)
(* that sample, never one computed at another sample.                      *)

\* the least of a non-empty set of offsets
Earliest(times) == CHOOSE t \in times : \A u \in times : t <= u

C28_EarliestOfTies ==
    (/\ closestApproach.called
     /\ closestApproach.value.found
     /\ Cardinality(MinimumTimes[closestApproach.sat1, closestApproach.sat2]) > 1)
        => LET first == Earliest(MinimumTimes[closestApproach.sat1, closestApproach.sat2])
               s1 == propagateSatellitePosition(closestApproach.sat1, first)
               s2 == propagateSatellitePosition(closestApproach.sat2, first)
           IN  /\ closestApproach.value.timeToClosestApproach = first
               /\ closestApproach.value.positions.sat1 = s1.position
               /\ closestApproach.value.positions.sat2 = s2.position
               /\ closestApproach.value.relVelFrom \subseteq {first}
               /\ (s1.velocity.ok /\ s2.velocity.ok)
                     => closestApproach.value.relativeVelocity
                           = calculateRelativeVelocity(s1.velocity, s2.velocity)

----------------------------------------------------------------------------
(* C29: for two objects both resolved by the circular-orbit model the      *)
(* relativeVelocity reported depends on their two altitudes only, and is 0 *)
(* when the altitudes are equal, wherever the objects are; a cascade       *)
(* simulated from such a conjunction of equal altitudes has exactly 50     *)
(* fragments, all with a velocity perturbation of zero.                    *)

\* both objects of the conjunction are resolved by propagateSimple
BothSimplified(c) ==
    /\ ~HasSatrec(c.sat1) /\ AltitudeTruthy(c.sat1) /\ HasLatLon(c.sat1)
    /\ ~HasSatrec(c.sat2) /\ AltitudeTruthy(c.sat2) /\ HasLatLon(c.sat2)

\* the altitudes of the two objects, in either order
AltitudesOf(c) == {Altitude(c.sat1), Altitude(c.sat2)}

C29_SimplifiedRelativeVelocity ==
    /\ (cascade.called /\ BothSimplified(cascade.conjunction)) =>
          LET c == cascade.conjunction
          IN  /\ c.relativeVelocity
                    = Abs(CircularSpeed(Altitude(c.sat1)) - CircularSpeed(Altitude(c.sat2)))
              /\ Altitude(c.sat1) = Altitude(c.sat2) =>
                    /\ c.relativeVelocity = 0
                    /\ Len(cascade.debris) = 50
                    /\ \A n \in DOMAIN cascade.debris :
                          /\ cascade.debris[n].velocity.x = 0
                          /\ cascade.debris[n].velocity.y = 0
                          /\ cascade.debris[n].velocity.z = 0
    /\ (/\ cascade.called /\ BothSimplified(cascade.conjunction)
        /\ cascadePrev.called /\ BothSimplified(cascadePrev.conjunction)
        /\ AltitudesOf(cascade.conjunction) = AltitudesOf(cascadePrev.conjunction))
          => cascade.conjunction.relativeVelocity
                = cascadePrev.conjunction.relativeVelocity

\* a cascade of a conjunction of two objects of the circular-orbit model
\* at one altitude, its draws the greatest, after one of two such objects
\* at the same altitude and other positions
C29_Witness ==
    /\ cascade.called
    /\ BothSimplified(cascade.conjunction)
    /\ Altitude(cascade.conjunction.sat1) = Altitude(cascade.conjunction.sat2)
    /\ Len(cascade.debris) = 50
    /\ cascade.debris[1].size = FragmentSize(RANDOM_SCALE - 1)
    /\ cascadePrev.called
    /\ BothSimplified(cascadePrev.conjunction)
    /\ AltitudesOf(cascadePrev.conjunction) = AltitudesOf(cascade.conjunction)
    /\ cascadePrev.conjunction.positions # cascade.conjunction.positions

----------------------------------------------------------------------------
(* C30: all fragments of one call of simulateDebrisCascade have the same   *)
(* position, so for the fragment list of a conjunction                     *)
(* identifyAffectedSatellites returns exactly the objects of the catalog   *)
(* whose position is within 100 km of that one collision point, in the     *)
(* order of the catalog, whatever the number of fragments and the draws,   *)
(* and no object more than once.                                           *)

\* the lists simulateDebrisCascade returns
SimulatedDebris ==
    {DebrisOf[c, random] : c \in CascadeConjunctions, random \in RandomSources}

\* the position of the first fragment of the list passed
CollisionPoint == impact.debris[1].position

\* the object has a position less than 100 km from the collision point
NearCollisionPoint(sat) ==
    /\ Position(sat).ok
    /\ Lt(calculateDistance3D(Position(sat), CollisionPoint), 100 * MetresPerKm)

C30_OneCollisionPoint ==
    (impact.called /\ impact.debris \in SimulatedDebris) =>
        /\ \A n \in DOMAIN impact.debris : impact.debris[n].position = CollisionPoint
        /\ LET near == SelectSeq(impact.allSatellites, NearCollisionPoint)
           IN  /\ Len(impact.affected) = Len(near)
               /\ \A n \in DOMAIN near : impact.affected[n].satellite = near[n]
        /\ \A m, n \in DOMAIN impact.affected :
              m # n => impact.affected[m].satellite # impact.affected[n].satellite

\* a call with the 51 fragments of a cascade, of velocities other than
\* zero, on a catalog of three objects of which the first and the last are
\* near the collision point and the second is not
C30_Witness ==
    /\ impact.called
    /\ impact.debris \in SimulatedDebris
    /\ Len(impact.debris) = 51
    /\ impact.debris[1].velocity.x # 0
    /\ Len(impact.allSatellites) = 3
    /\ Position(impact.allSatellites[2]).ok
    /\ Len(impact.affected) = 2
    /\ impact.affected[1].satellite = impact.allSatellites[1]
    /\ impact.affected[2].satellite = impact.allSatellites[3]

====
